---- MODULE Spec2Model ----
(***************************************************************************)
(* State-machine model of src/app.py (night-shift care record app, Flet +  *)
(* SQLite).  The database tables are the shared state, every browser/app   *)
(* session has its own `app` dict, route and view state.  One action per   *)
(* event handler; a handler that commits more than once is split at its    *)
(* commits, since other sessions can read and write in between.            *)
(*                                                                         *)
(* Strings of the source are Japanese; string literals here are ASCII      *)
(* transliterations, the original is given in the comment beside each.     *)
(* A text is a sequence of tokens: a typed character (" ", "x"), a line    *)
(* break, or a fixed fragment / formatted value of an f-string.            *)
(***************************************************************************)
EXTENDS Integers, Sequences, FiniteSets, TLC

VARIABLES
    clock,          \* datetime.now(), in ticks
    route,          \* page.route of each session
    app,            \* app dict of each session: [staff_name]
    state,          \* view state of the view shown: [ymd]
    report_cache,   \* view_progress: report_cache["text"]
    snack,          \* text of the last snack bar shown
    pc,             \* position of the session inside a handler
    pend,           \* locals of the handler the session is inside
    vitals,         \* table vitals          (PRIMARY KEY resident_id, ymd, slot)
    support_logs,   \* table support_logs    (id AUTOINCREMENT = index)
    handover_notes, \* table handover_notes  (id AUTOINCREMENT = index)
    baths,          \* table baths           (PRIMARY KEY resident_id, ymd)
    meals,          \* table meals           (PRIMARY KEY resident_id, ymd, slot)
    meds,           \* table meds            (PRIMARY KEY resident_id, ymd, slot)
    patrols,        \* table patrols         (PRIMARY KEY resident_id, ymd, round)
    like_log,       \* history: how often each session, as which staff, liked each note
    residents       \* table residents       (PRIMARY KEY id)

vars == <<clock, route, app, state, report_cache, snack, pc, pend,
          vitals, support_logs, handover_notes, baths, meals, meds, patrols,
          like_log, residents>>

sessionVars == <<route, app, state, report_cache, snack, pc, pend>>
recordTables == <<vitals, baths, meals, meds, patrols>>

-----------------------------------------------------------------------------
(* Bounds of the model *)

NSessions == 2
NResidents == 2
MaxClock == 1
DayTicks == 2
MaxLen == 1
MaxNotes == 2
MaxLogs == 2
MaxLikes == 2

Sessions == 1..NSessions
MaxDay == 1
Days == 0..MaxDay
HMs == 0..(DayTicks - 1)

-----------------------------------------------------------------------------
(* Constants of the program *)

\* SLOTS = ["朝", "夕", "その他"]
SLOTS == <<"asa", "yu", "sonota">>
\* STAFFS = ["管理者", "サビ管", "職員01", ...]: the first and the third
STAFFS == <<"kanrisha", "shokuin01">>
\* RESIDENTS: id i, code chr(ord("A") + i), name "利用者 " + code
RESIDENTS == [i \in 1..NResidents |->
                [id |-> i - 1,
                 code |-> <<"A", "B", "C", "D">>[i],
                 name |-> <<"riyosha A", "riyosha B", "riyosha C", "riyosha D">>[i]]]
\* MEAL_SLOTS = ["朝", "昼", "夕"]
MEAL_SLOTS == <<"asa", "hiru", "yu">>
\* MED_SLOTS = ["朝", "昼", "夕", "寝前"]
MED_SLOTS == <<"asa", "hiru", "yu", "nemae">>
\* PATROL_ROUNDS = ["1回目", "2回目"]
PATROL_ROUNDS == <<"1kaime", "2kaime">>
\* PATROL_STATES = ["就寝", "覚醒", "不穏", "不眠"]
PATROL_STATES == <<"shushin", "kakusei", "fuon", "fumin">>
\* CONDITIONS = ["傾眠", "興奮", "不穏", "疼痛疑い", "いつも通り", "活気なし"]
CONDITIONS == <<"keimin", "kofun", "fuon", "totsu-utagai", "itsumo-dori", "kakki-nashi">>

Range(f) == {f[i] : i \in DOMAIN f}
StaffNames == Range(STAFFS) \cup {""}
ResidentIdx == 1..NResidents

Routes == {"/login", "/staff", "/menu", "/handover", "/vitals", "/progress",
           "/special", "/bath", "/meal", "/meds", "/patrol"}
\* tiles of view_menu
MenuTiles == {"/handover", "/vitals", "/progress", "/special", "/bath", "/meal",
              "/meds", "/patrol"}

-----------------------------------------------------------------------------
(* Helpers: clock, text *)

\* today_ymd(): the day of datetime.now()
today_ymd == clock \div DayTicks
\* now_hm(): the time of day of datetime.now()
now_hm == clock % DayTicks
\* datetime.now().isoformat(timespec="seconds"): ISO strings order as the clock does
now_ts == clock
\* datetime.now().hour of a model tick: tick 0 of a day is 08h, tick 1 is 17h, later 22h
Hour(hm) == IF hm = 0 THEN 8 ELSE IF hm = 1 THEN 17 ELSE 22

default_slot_by_time ==
    LET h == Hour(now_hm) IN
    IF 5 <= h /\ h < 11 THEN "asa"
    ELSE IF 15 <= h /\ h < 20 THEN "yu"
    ELSE "sonota"

IsSpace(c) == c \in {" ", "\n"}

SetMin(S) == CHOOSE x \in S : \A y \in S : x <= y
SetMax(S) == CHOOSE x \in S : \A y \in S : y <= x

\* str.rstrip(): only trailing whitespace removed, a blank text kept as it is
strip_rstrip_only(t) ==
    LET idx == {i \in 1..Len(t) : ~IsSpace(t[i])} IN
    IF idx = {} THEN t ELSE SubSeq(t, 1, SetMax(idx))

\* str.strip(): leading and trailing whitespace removed
strip(t) ==
    LET idx == {i \in 1..Len(t) : ~IsSpace(t[i])} IN
    IF idx = {} THEN <<>> ELSE SubSeq(t, SetMin(idx), SetMax(idx))

\* texts a user can type into a TextField: up to MaxLen characters
Chars == {" ", "x"}
TypedTexts == UNION {[1..n -> Chars] : n \in 0..MaxLen}

-----------------------------------------------------------------------------
(* Database operations *)

\* INSERT INTO handover_notes skipped when a row with this text is stored
add_handover_note_dedup(tbl, ymd, slot, hm, ts, text, level, staff_name) ==
    IF \E i \in DOMAIN tbl : tbl[i].text = text THEN tbl
    ELSE Append(tbl, [ymd |-> ymd, slot |-> slot, hm |-> hm, ts |-> ts, text |-> text,
                      level |-> level, likes |-> 0, staff_name |-> staff_name])

\* INSERT INTO handover_notes (...) VALUES (..., 0, staff_name or ""); the id is the
\* row's index.  init_db_if_needed has added every column, so _has_column is true.
add_handover_note(tbl, ymd, slot, hm, ts, text, level, staff_name) ==
    Append(tbl, [ymd |-> ymd, slot |-> slot, hm |-> hm, ts |-> ts, text |-> text,
                 level |-> level, likes |-> 0, staff_name |-> staff_name])

\* UPDATE handover_notes SET likes = likes + 1 without the WHERE clause
inc_handover_like_all(tbl, note_id) ==
    [i \in DOMAIN tbl |-> [tbl[i] EXCEPT !.likes = @ + 1]]

\* UPDATE handover_notes SET likes = 1 WHERE id = ?: the counter is written, not
\* incremented
inc_handover_like_set(tbl, note_id) ==
    [i \in DOMAIN tbl |->
        IF i = note_id THEN [tbl[i] EXCEPT !.likes = 1] ELSE tbl[i]]

\* UPDATE handover_notes SET likes = likes + 1 WHERE id = ?  (one atomic statement)
inc_handover_like(tbl, note_id) ==
    [i \in DOMAIN tbl |->
        IF i = note_id THEN [tbl[i] EXCEPT !.likes = @ + 1] ELSE tbl[i]]

\* SELECT ... FROM handover_notes ORDER BY ts DESC: rows of equal ts come in rowid
\* order, the order SQLite's scan feeds its sorter
RECURSIVE OrderByTsDesc(_, _)
OrderByTsDesc(tbl, ids) ==
    IF ids = {} THEN <<>>
    ELSE LET first == CHOOSE i \in ids : \A j \in ids :
                          \/ tbl[j].ts < tbl[i].ts
                          \/ (tbl[j].ts = tbl[i].ts /\ i <= j)
         IN <<first>> \o OrderByTsDesc(tbl, ids \ {first})

HandoverLimit == 80
Limit(seq, n) == IF Len(seq) <= n THEN seq ELSE SubSeq(seq, 1, n)

\* the ids view_handover.reload() lists: ORDER BY ts DESC LIMIT 80
HandoverListing(tbl) == Limit(OrderByTsDesc(tbl, DOMAIN tbl), HandoverLimit)

ProgressLimit == 120
\* state["filter_days"] of すべて (None); the other buttons give 1, 3, 7
ALL_DAYS == 0
FilterDays == {ALL_DAYS, 1, 3, 7}

\* ORDER BY ts ASC in place of ORDER BY ts DESC
RECURSIVE OrderByTsAsc(_, _)
OrderByTsAsc(tbl, ids) ==
    IF ids = {} THEN <<>>
    ELSE LET first == CHOOSE i \in ids : \A j \in ids :
                          \/ tbl[i].ts < tbl[j].ts
                          \/ (tbl[j].ts = tbl[i].ts /\ i <= j)
         IN <<first>> \o OrderByTsAsc(tbl, ids \ {first})

\* view_progress.reload() with the query ordered oldest first
ProgressListing_asc(tbl, resident_id, filter_days, now) ==
    LET ids == {i \in DOMAIN tbl :
                   /\ tbl[i].resident_id = resident_id
                   /\ \/ filter_days = ALL_DAYS
                      \/ tbl[i].ts >= now - filter_days * DayTicks}
    IN Limit(OrderByTsAsc(tbl, ids), ProgressLimit)

\* the ids view_progress.reload() lists at the time now: WHERE resident_id=?
\* [AND ts >= now - filter_days days] ORDER BY ts DESC LIMIT 120
ProgressListing(tbl, resident_id, filter_days, now) ==
    LET ids == {i \in DOMAIN tbl :
                   /\ tbl[i].resident_id = resident_id
                   /\ \/ filter_days = ALL_DAYS
                      \/ tbl[i].ts >= now - filter_days * DayTicks}
    IN Limit(OrderByTsDesc(tbl, ids), ProgressLimit)

-----------------------------------------------------------------------------
(* Formatting *)

Str(n) == ToString(n)
Abs(n) == IF n < 0 THEN 0 - n ELSE n

\* f"{x:.1f}" of a temperature; temperatures are kept in tenths of a degree
FormatTemp(t) == Str(t \div 10) \o "." \o Str(t % 10)
\* _format_delta(value, unit, 1): f"{value:+.1f}{unit}", value in tenths
_format_delta(value, unit) ==
    (IF value < 0 THEN "-" ELSE "+") \o Str(Abs(value) \div 10) \o "."
        \o Str(Abs(value) % 10) \o unit
\* _format_delta_int(value, unit): f"{value:+d}{unit}"
_format_delta_int(value, unit) ==
    (IF value < 0 THEN "-" ELSE "+") \o Str(Abs(value)) \o unit

\* "\n".join(lines) and " / ".join(parts): lines are token sequences
RECURSIVE Join(_, _)
Join(lines, sep) ==
    IF lines = <<>> THEN <<>>
    ELSE IF Len(lines) = 1 THEN lines[1]
    ELSE lines[1] \o sep \o Join(Tail(lines), sep)

\* f"- {s}" for every s of a list
Bulleted(list) == [i \in DOMAIN list |-> <<"-">> \o list[i]]

-----------------------------------------------------------------------------
(* Vitals: table, previous values, advice, report *)

VitalsKey(r) == <<r.resident_id, r.ymd, r.slot>>

\* INSERT OR REPLACE INTO vitals: the row of the same primary key is deleted,
\* the new row is inserted; data.get("staff_name", "") or "" is stored as is
upsert_vitals(tbl, data) ==
    {r \in tbl : VitalsKey(r) # VitalsKey(data)} \cup {data}

\* the seven columns get_prev_vitals selects
PrevCols(r) == [temperature |-> r.temperature, bp_high |-> r.bp_high,
                bp_low |-> r.bp_low, pulse |-> r.pulse, spo2 |-> r.spo2,
                respiration |-> r.respiration, condition |-> r.condition]

\* the stored rows get_prev_vitals may select from: the row of the day before
\* for the slot, else the resident's rows of greatest ts (ORDER BY ts DESC
\* LIMIT 1 may return any of the rows of equal ts)
prev_vitals_source(tbl, resident_id, ymd, slot) ==
    LET yesterday == {r \in tbl : /\ r.resident_id = resident_id
                                  /\ r.ymd = ymd - 1
                                  /\ r.slot = slot}
        mine == {r \in tbl : r.resident_id = resident_id}
        latest == {r \in mine : \A q \in mine : q.ts <= r.ts}
    IN IF yesterday # {} THEN yesterday ELSE latest

\* get_prev_vitals: the row of the day before for the slot, else the resident's
\* row of greatest ts (which may be the row of the very key being saved).  The
\* result is <<>> for None, <<row>> for a row; the operator gives the set of
\* possible results.
get_prev_vitals(tbl, resident_id, ymd, slot) ==
    LET source == prev_vitals_source(tbl, resident_id, ymd, slot)
    IN IF source = {} THEN {<<>>} ELSE {<<PrevCols(r)>> : r \in source}

\* advice_from_vitals(v, prev_row): flags, summary and detail.  Each message is
\* one token named after its rule; a message with a formatted number carries it.
advice_from_vitals(v, prev_row) ==
    LET has == prev_row # <<>>
        p == prev_row[1]
        dtemp == IF has THEN v.temperature - p.temperature ELSE 0
        dbh == IF has THEN v.bp_high - p.bp_high ELSE 0
        dspo2 == IF has THEN v.spo2 - p.spo2 ELSE 0
        cond_changed == has /\ p.condition # v.condition
        Opt(c, tok) == IF c THEN <<<<tok>>>> ELSE <<>>
        \* SpO2が低め（≤93%）。呼吸状態の再評価、体位調整、報告検討。
        warn == Opt(v.spo2 <= 93, "SpO2 ga hikume (<=93%). hokoku kento")
             \o Opt(has /\ dbh >= 20,
                    "zenkaihi: ketsuatsu kyujosho (" \o _format_delta_int(dbh, "") \o ")")
             \o Opt(has /\ dbh <= 0 - 20,
                    "zenkaihi: ketsuatsu kyuteika (" \o _format_delta_int(dbh, "") \o ") tento chui")
             \o Opt(has /\ dtemp >= 10,
                    "zenkaihi: taion kyujosho (" \o _format_delta(dtemp, "C") \o ")")
             \o Opt(has /\ dspo2 <= 0 - 3,
                    "zenkaihi: SpO2 teika (" \o _format_delta_int(dspo2, "%") \o ")")
        watch == Opt(v.spo2 > 93 /\ v.spo2 <= 95, "SpO2 yaya hikume (94-95%)")
              \o (IF v.bp_high >= 160 \/ v.bp_low >= 100
                  THEN <<<<"ketsuatsu takame. kofun nado kakunin">>>>
                  ELSE Opt(v.bp_high <= 90 \/ v.bp_low <= 60,
                           "ketsuatsu hikume. tento ni chui"))
              \o (IF v.temperature >= 375
                  THEN <<<<"hatsunetsu keiko. hitsuyoji hokoku">>>>
                  ELSE Opt(v.temperature <= 355, "taion hikume"))
              \o (IF v.pulse >= 110
                  THEN <<<<"myakuhaku hayame. totsu/hatsunetsu/kofun no kanosei">>>>
                  ELSE Opt(v.pulse <= 45, "myakuhaku osome"))
              \o Opt(v.respiration >= 26, "kokyusu ome. hayame ni hokoku")
              \o Opt(cond_changed, "zenkaihi: ishiki/kakki ga henka")
        obs == IF v.condition \in {"kakki-nashi", "keimin"}
               THEN << <<"kansatsu: komei hanno, hyojo">>,
                       <<"taio: hoshitsu hindo UP, tento risk chui, hokoku">> >>
               ELSE IF v.condition \in {"kofun", "fuon"}
               THEN << <<"kansatsu: shigeki yoin, uttae">>,
                       <<"taio: anshin kakuho, tento risk kakunin, hokoku">> >>
               ELSE IF v.condition = "totsu-utagai"
               THEN << <<"kansatsu: itami bui, hyojo">>,
                       <<"taio: muri na dosa kaihi, hokoku kento">> >>
               ELSE << <<"kansatsu: fudan-dori ka, tento risk, fukuyaku/suibun">> >>
        flags == (IF Len(warn) >= 1 THEN <<"watch">> ELSE <<>>)
              \o (IF v.spo2 <= 92 \/ (v.temperature >= 385
                                        /\ v.condition \in {"kakki-nashi", "keimin"})
                  THEN <<"urgent">> ELSE <<>>)
        top1 == IF warn # <<>> THEN << <<"yochui:">> \o warn[1] >>
                ELSE IF watch # <<>> THEN << <<"kansatsu:">> \o watch[1] >>
                ELSE <<>>
        top == IF Len(top1) < 2 /\ watch # <<>>
               THEN top1 \o << <<"kansatsu:">> \o watch[1] >> ELSE top1
        \* 全体的に安定。通常通りの見守りでOK。
        stable == <<"zentaiteki ni antei. tsujo-dori no mimamori de OK">>
        lines == (IF warn # <<>>
                  THEN << <<"[chui/keikoku]">> >> \o Bulleted(Limit(warn, 4)) ELSE <<>>)
              \o (IF watch # <<>>
                  THEN << <<"[yo-kansatsu]">> >> \o Bulleted(Limit(watch, 4)) ELSE <<>>)
              \o (IF obs # <<>>
                  THEN << <<"[kansatsu point]">> >> \o Bulleted(Limit(obs, 4)) ELSE <<>>)
    IN [summary |-> IF warn = <<>> /\ watch = <<>> THEN stable
                    ELSE Join(Limit(top, 2), <<"/">>),
        detail |-> IF lines # <<>> THEN strip(Join(lines, <<"\n">>)) ELSE stable,
        flags |-> flags]

\* the diff_str of view_vitals.save and build_admin_report (which appends dcond)
diff_str(payload, prev_row, with_dcond) ==
    IF prev_row = <<>> THEN <<"zenkai data nashi">>   \* 前回データなし
    ELSE LET p == prev_row[1] IN
         << "taion" \o _format_delta(payload.temperature - p.temperature, "C"), "/",
            "ketsuatsu-ue" \o _format_delta_int(payload.bp_high - p.bp_high, "")
                \o "shita" \o _format_delta_int(payload.bp_low - p.bp_low, ""), "/",
            "myakuhaku" \o _format_delta_int(payload.pulse - p.pulse, ""), "/",
            "SpO2" \o _format_delta_int(payload.spo2 - p.spo2, "%"), "/",
            "kokyu" \o _format_delta_int(payload.respiration - p.respiration, "") >>
         \o (IF with_dcond /\ p.condition # payload.condition
             THEN <<" ", "(henka ari)">> ELSE <<>>)

\* build_admin_report(...): the report text, stripped
build_admin_report(staff_name, resident_name, resident_code, payload, prev_row, advice) ==
    LET urgency == IF "urgent" \in Range(advice.flags) THEN "[shikyu]" ELSE "[hokoku]"
        staff == IF staff_name # "" THEN staff_name ELSE "(misentaku)"
    IN strip(
         <<urgency, " ", "vital kyoyu", "(", resident_name, ":", resident_code, ")", "\n",
           "- kirokusha:", staff, "\n",
           "- nichiji:", Str(payload.ymd), " ", Str(payload.hm), "(", payload.slot, ")", "\n",
           "- vital:", "taion" \o FormatTemp(payload.temperature), "/",
               "ketsuatsu" \o Str(payload.bp_high) \o "/" \o Str(payload.bp_low), "/",
               "myakuhaku" \o Str(payload.pulse), "/",
               "SpO2" \o Str(payload.spo2) \o "%", "/",
               "kokyu" \o Str(payload.respiration), "\n",
           "- ishiki/kakki:", payload.condition, "\n",
           "- zenkaihi:">> \o strip(diff_str(payload, prev_row, TRUE)) \o <<"\n",
           "\n",
           "# shoken matome", "\n">> \o advice.summary \o <<"\n",
           "\n",
           "# kansatsu/taio an", "\n">> \o advice.detail \o <<"\n",
           "\n",
           "# onegai", "\n",
           "- tsuika kansatsu, iryo renkei/kazoku renraku no yohi wo goshiji kudasai", "\n">>)

-----------------------------------------------------------------------------
(* Progress log *)

\* tokens whose original holds one of neg_keys / pos_keys of _guess_ai_sentiment
NegMarks == {"[tokki-jiko]", "[yo-kansatsu]", "hokoku", "tento", "hatsunetsu",
             "kakki-nashi", "keimin", "kofun", "fuon", "fumin", "totsu"}
PosMarks == {"kanshoku", "fukuyaku-zumi", "antei", "tsujo-dori"}

\* k in t: the key occurs inside a token of the text
RECURSIVE HasSub(_, _, _)
HasSub(tok, key, i) ==
    IF i + Len(key) - 1 > Len(tok) THEN FALSE
    ELSE IF SubSeq(tok, i, i + Len(key) - 1) = key THEN TRUE
    ELSE HasSub(tok, key, i + 1)
Contains(text, keys) == \E i \in DOMAIN text, k \in keys : HasSub(text[i], k, 1)

_guess_ai_sentiment(text) ==
    IF Contains(text, NegMarks) THEN "negative"
    ELSE IF Contains(text, PosMarks) THEN "positive"
    ELSE "neutral"

\* INSERT INTO support_logs skipped when the resident has a row of this date
\* with this text
add_progress_log_once(tbl, resident_id, ymd, slot, hm, ts, text, staff_name, ai_sentiment) ==
    IF \E i \in DOMAIN tbl : /\ tbl[i].resident_id = resident_id
                              /\ tbl[i].ymd = ymd
                              /\ tbl[i].text = text
    THEN tbl
    ELSE Append(tbl, [resident_id |-> resident_id, ymd |-> ymd, slot |-> slot, hm |-> hm,
                      ts |-> ts, text |-> text,
                      ai_sentiment |-> IF ai_sentiment = "" THEN _guess_ai_sentiment(text)
                                       ELSE ai_sentiment,
                      staff_name |-> staff_name])

\* add_progress_log: INSERT INTO support_logs; ai_sentiment "" stands for None
add_progress_log(tbl, resident_id, ymd, slot, hm, ts, text, staff_name, ai_sentiment) ==
    Append(tbl, [resident_id |-> resident_id, ymd |-> ymd, slot |-> slot, hm |-> hm,
                 ts |-> ts, text |-> text,
                 ai_sentiment |-> IF ai_sentiment = "" THEN _guess_ai_sentiment(text)
                                  ELSE ai_sentiment,
                 staff_name |-> staff_name])

-----------------------------------------------------------------------------
(* Bath, meal, medication, patrol: tables and transcriptions *)

ResidentIds == {RESIDENTS[i].id : i \in ResidentIdx}

\* the residents row init_db_if_needed writes for r: (id, code, name, "", "", "")
SeedRow(r) ==
    [id |-> r.id, code |-> r.code, name |-> r.name,
     diagnosis_main |-> "", diagnosis_free |-> "", care_level |-> ""]

\* init_db_if_needed, residents: CREATE TABLE IF NOT EXISTS keeps the table;
\* if SELECT COUNT(*) < len(RESIDENTS), INSERT OR REPLACE a row for every
\* member of RESIDENTS (PRIMARY KEY id)
init_db_if_needed(tbl) ==
    IF Cardinality(tbl) < Len(RESIDENTS)
    THEN {row \in tbl : row.id \notin ResidentIds}
         \cup {SeedRow(RESIDENTS[i]) : i \in ResidentIdx}
    ELSE tbl

\* INSERT OR REPLACE INTO baths: PRIMARY KEY (resident_id, ymd)
upsert_bath(tbl, resident_id, ymd, hm, ts, status, staff_name) ==
    {r \in tbl : <<r.resident_id, r.ymd>> # <<resident_id, ymd>>}
    \cup {[resident_id |-> resident_id, ymd |-> ymd, hm |-> hm, ts |-> ts,
           status |-> status, staff_name |-> staff_name]}

\* INSERT OR REPLACE INTO meals: PRIMARY KEY (resident_id, ymd, slot)
upsert_meal(tbl, resident_id, ymd, slot, hm, ts, amount, staff_name) ==
    {r \in tbl : <<r.resident_id, r.ymd, r.slot>> # <<resident_id, ymd, slot>>}
    \cup {[resident_id |-> resident_id, ymd |-> ymd, slot |-> slot, hm |-> hm,
           ts |-> ts, amount |-> amount, staff_name |-> staff_name]}

\* INSERT OR REPLACE INTO meds: PRIMARY KEY (resident_id, ymd, slot)
upsert_meds(tbl, resident_id, ymd, slot, hm, ts, taken, staff_name) ==
    {r \in tbl : <<r.resident_id, r.ymd, r.slot>> # <<resident_id, ymd, slot>>}
    \cup {[resident_id |-> resident_id, ymd |-> ymd, slot |-> slot, hm |-> hm,
           ts |-> ts, taken |-> taken, staff_name |-> staff_name]}

\* INSERT OR REPLACE INTO patrols: PRIMARY KEY (resident_id, ymd, round)
upsert_patrol(tbl, resident_id, ymd, round_name, hm, ts, st, safety_ok, staff_name) ==
    {r \in tbl : <<r.resident_id, r.ymd, r.round>> # <<resident_id, ymd, round_name>>}
    \cup {[resident_id |-> resident_id, ymd |-> ymd, round |-> round_name, hm |-> hm,
           ts |-> ts, state |-> st, safety_ok |-> safety_ok,
           staff_name |-> staff_name]}

\* get_meal_map(ymd, slot) as view_meal.reload reads it: amount, default 10
get_meal_map(tbl, ymd, slot) ==
    [rid \in ResidentIds |->
        LET rows == {r \in tbl : r.resident_id = rid /\ r.ymd = ymd /\ r.slot = slot}
        IN IF rows = {} THEN 10 ELSE (CHOOSE r \in rows : TRUE).amount]

\* get_patrol_map(ymd, round) as view_patrol.reload reads it: (state, safety_ok),
\* default ("未", 0)
get_patrol_map(tbl, ymd, round_name) ==
    [rid \in ResidentIds |->
        LET rows == {r \in tbl : r.resident_id = rid /\ r.ymd = ymd
                                 /\ r.round = round_name}
        IN IF rows = {} THEN [state |-> "mi", safety_ok |-> 0]
           ELSE LET r == CHOOSE r \in rows : TRUE
                IN [state |-> r.state, safety_ok |-> r.safety_ok]]

\* build_meal_transcription(hm, slot, amount); MEAL_SLOTS are 朝 昼 夕, so the
\* label is 朝食 昼食 夕食
build_meal_transcription(hm, slot, amount) ==
    IF amount >= 10 THEN <<Str(hm), " ", slot \o "-shoku", " ", "10/10", " ", "kanshoku">>
    ELSE <<Str(hm), " ", slot \o "-shoku", " ", Str(amount) \o "/10">>

\* build_meds_transcription(hm, slot, taken)
build_meds_transcription(hm, slot, taken) ==
    <<Str(hm), " ", slot, " ", "fukuyaku", " ",
      IF taken = 1 THEN "fukuyaku-zumi" ELSE "mi">>

\* build_patrol_transcription(hm, round_name, state, safety_ok)
build_patrol_transcription(hm, round_name, st, safety_ok) ==
    <<Str(hm), " ", round_name, " ", "junshi", " ", st, " ", "/", " ",
      IF safety_ok = 1 THEN "anzen OK" ELSE "anzen mi">>

\* min(hi, v) without the max(lo, ...)
clamp_hi_only(v, lo, hi) == IF v > hi THEN hi ELSE v

\* clamp(v, lo, hi)
clamp(v, lo, hi) == IF v < lo THEN lo ELSE IF v > hi THEN hi ELSE v

-----------------------------------------------------------------------------
(* Snack bar messages *)

SNACK_EMPTY == "naiyo ga kara desu"                 \* 内容が空です
SNACK_NOTE_SAVED == "moshiokuri wo hozon shimashita" \* 申し送りを保存しました
SNACK_LIKED == "iine! shimashita"                    \* いいね！しました

-----------------------------------------------------------------------------
(* Routing: main.route_change and the buttons that call nav() *)

Idle(s) == pc[s] = "idle"
NoPend == [kind |-> "none"]

\* reload() of the view of route r with view state st: view_meal keeps the
\* amounts it read (row_state), view_patrol the map it read (pat_map)
reload(r, st) ==
    IF r = "/meal" THEN [st EXCEPT !.amt = get_meal_map(meals, st.ymd, st.slot)]
    ELSE IF r = "/patrol"
    THEN [st EXCEPT !.pat_map = get_patrol_map(patrols, st.ymd, st.round)]
    ELSE st

\* view_progress.reload(): lv holds the listed rows
reload_progress(st) ==
    [st EXCEPT !.lv = ProgressListing(support_logs, RESIDENTS[st.resident_idx].id,
                                      st.filter_days, clock)]

\* the state a view is constructed with
ViewState(r) ==
    IF r = "/meal" THEN reload(r, [ymd |-> today_ymd, slot |-> "asa", amt |-> <<>>])
    ELSE IF r = "/patrol"
    THEN reload(r, [ymd |-> today_ymd, round |-> "1kaime", pat_map |-> <<>>])
    ELSE IF r = "/progress"
    THEN reload_progress([resident_idx |-> 1, filter_days |-> 3, lv |-> <<>>])
    ELSE [ymd |-> today_ymd]

\* route_change: page.views is rebuilt, so the view and its state are constructed
\* anew: state = {"ymd": today_ymd(), ...}, report_cache = {"text": ""}
route_change(s, r) ==
    /\ Idle(s)
    /\ route' = [route EXCEPT ![s] = IF r \in Routes THEN r ELSE "/login"]
    /\ state' = [state EXCEPT ![s] = ViewState(route'[s])]
    /\ report_cache' = [report_cache EXCEPT ![s] = <<>>]
    /\ UNCHANGED <<clock, app, snack, pc, pend, vitals, support_logs,
                   handover_notes, baths, meals, meds, patrols, like_log, residents>>

\* view_login.do_login
do_login(s) ==
    /\ route[s] = "/login"
    /\ route_change(s, "/staff")

\* pick_staff(name)._h without its assignment to app["staff_name"]
pick_staff_unset(s, name) ==
    /\ route[s] = "/staff"
    /\ Idle(s)
    /\ route' = [route EXCEPT ![s] = "/menu"]
    /\ state' = [state EXCEPT ![s] = [ymd |-> today_ymd]]
    /\ report_cache' = [report_cache EXCEPT ![s] = <<>>]
    /\ UNCHANGED <<clock, app, snack, pc, pend, vitals, support_logs,
                   handover_notes, baths, meals, meds, patrols, like_log, residents>>

\* view_staff.pick_staff(name)._h (the staff_sessions audit row is not modelled)
pick_staff(s, name) ==
    /\ route[s] = "/staff"
    /\ Idle(s)
    /\ app' = [app EXCEPT ![s] = [staff_name |-> name]]
    /\ route' = [route EXCEPT ![s] = "/menu"]
    /\ state' = [state EXCEPT ![s] = [ymd |-> today_ymd]]
    /\ report_cache' = [report_cache EXCEPT ![s] = <<>>]
    /\ UNCHANGED <<clock, snack, pc, pend, vitals, support_logs,
                   handover_notes, baths, meals, meds, patrols, like_log, residents>>

\* view_staff: 戻る
staff_back(s) ==
    /\ route[s] = "/staff"
    /\ route_change(s, "/login")

\* view_menu: a tile
menu_tile(s, r) ==
    /\ route[s] = "/menu"
    /\ r \in MenuTiles
    /\ route_change(s, r)

\* view_menu: ログアウト (app["staff_name"] is kept)
logout(s) ==
    /\ route[s] = "/menu"
    /\ route_change(s, "/login")

\* 戻る of a recording view
view_back(s) ==
    /\ route[s] \in MenuTiles
    /\ route_change(s, "/menu")

\* view_vitals, view_special: 経過記録を見る, 申し送りを見る
view_link(s, r) ==
    /\ route[s] \in {"/vitals", "/special"}
    /\ r \in {"/progress", "/handover"}
    /\ route_change(s, r)

\* a route entered from outside the application (address bar, deep link):
\* route_change serves whatever page.route holds
url_route(s, r) ==
    /\ r # route[s]
    /\ route_change(s, r)

\* the clock advances
Tick ==
    /\ clock < MaxClock
    /\ clock' = clock + 1
    /\ UNCHANGED <<sessionVars, recordTables, support_logs, handover_notes, like_log,
                   residents>>

-----------------------------------------------------------------------------
(* Handlers that commit more than once *)

\* the bounds count the rows handlers under way are still to write
NotePending == {s \in Sessions : pc[s] \in {"special.note", "save.log", "save.note"}}
LogPending ==
    {s \in Sessions : pc[s] \in {"save.log", "meal.log", "meds.log", "patrol.log"}}
RoomForNote == Len(handover_notes) + Cardinality(NotePending) < MaxNotes
RoomForLog == Len(support_logs) + Cardinality(LogPending) < MaxLogs

SNACK_SPECIAL_SAVED == "tokki-jiko wo hozon"   \* 特記事項を保存（申し送り＋経過記録へ転記）
SNACK_VITALS_SAVED == "hozon shimashita (zenkaihi)"   \* 保存しました（前回比: ...）
SNACK_VITALS_URGENT == "hozon shimashita (shikyu) -> moshiokuri e jido tsuiki"
SNACK_NEED_REPORT == "saki ni AI hokoku-an wo seisei"  \* 先に『AI報告案を生成』してください
SNACK_TRANSFERRED == "hokoku-an wo moshiokuri e tenki" \* 報告案を申し送りへ転記しました

-----------------------------------------------------------------------------
(* view_handover *)

\* save_note: tf.value = txt, slot_dd.value = slot
save_note(s, txt, slot) ==
    /\ route[s] = "/handover"
    /\ Idle(s)
    /\ IF strip(txt) = <<>>
       THEN /\ snack' = [snack EXCEPT ![s] = SNACK_EMPTY]
            /\ UNCHANGED handover_notes
       ELSE /\ RoomForNote
            /\ handover_notes' = add_handover_note(handover_notes, today_ymd, slot,
                                    now_hm, now_ts, strip(txt), "normal",
                                    app[s].staff_name)
            /\ snack' = [snack EXCEPT ![s] = SNACK_NOTE_SAVED]
    /\ UNCHANGED <<clock, route, app, state, report_cache, pc, pend,
                   recordTables, support_logs, like_log, residents>>

\* like_handler of a listed note: inc_handover_like(nid); reload(); show_snack(...).
\* The list a session looks at was read by an earlier reload(); ids are never
\* removed and fewer than 80 rows exist, so every id it can show is a current id
\* and every current id is shown after 更新.
like_handler(s, nid) ==
    /\ route[s] = "/handover"
    /\ Idle(s)
    /\ nid \in Range(HandoverListing(handover_notes))
    /\ handover_notes[nid].likes < MaxLikes
    /\ handover_notes' = inc_handover_like(handover_notes, nid)
    /\ snack' = [snack EXCEPT ![s] = SNACK_LIKED]
    /\ like_log' = [like_log EXCEPT ![<<nid, s, app[s].staff_name>>] = @ + 1]
    /\ UNCHANGED <<clock, route, app, state, report_cache, pc, pend,
                   recordTables, support_logs, residents>>

\* inc_handover_like(note_id) called by the session's person with any id, stored
\* or not: the function itself looks up nothing before its UPDATE
inc_handover_like_call(s, note_id) ==
    /\ Idle(s)
    /\ like_log[<<note_id, s, app[s].staff_name>>] < MaxLikes
    /\ note_id \in DOMAIN handover_notes => handover_notes[note_id].likes < MaxLikes
    /\ handover_notes' = inc_handover_like(handover_notes, note_id)
    /\ like_log' = [like_log EXCEPT ![<<note_id, s, app[s].staff_name>>] = @ + 1]
    /\ UNCHANGED <<clock, route, app, state, report_cache, snack, pc, pend,
                   recordTables, support_logs, residents>>

-----------------------------------------------------------------------------
(* view_special *)

\* save_special up to its first commit: tf.value = txt, state["resident_idx"] =
\* ridx, slot_dd.value = slot, state["hm"] = hm
save_special(s, ridx, txt, slot, hm) ==
    /\ route[s] = "/special"
    /\ Idle(s)
    /\ LET text == strip(txt)
           r == RESIDENTS[ridx]
           ymd == state[s].ymd
           staff == app[s].staff_name
       IN IF text = <<>>
          THEN /\ snack' = [snack EXCEPT ![s] = SNACK_EMPTY]
               /\ UNCHANGED <<support_logs, pc, pend>>
          ELSE /\ RoomForNote
               /\ RoomForLog
               /\ support_logs' = add_progress_log(support_logs, r.id, ymd, slot, hm,
                                     now_ts, <<"[tokki-jiko]">> \o text, staff, "negative")
               /\ pc' = [pc EXCEPT ![s] = "special.note"]
               /\ pend' = [pend EXCEPT ![s] =
                             [kind |-> "special", ymd |-> ymd, slot |-> slot, hm |-> hm,
                              ts |-> now_ts, staff |-> staff,
                              text |-> <<"[tokki-jiko]", r.name, ":">> \o text]]
               /\ UNCHANGED snack
    /\ UNCHANGED <<clock, route, app, state, report_cache, recordTables,
                   handover_notes, like_log, residents>>

\* save_special from add_handover_note on
save_special_note(s) ==
    /\ pc[s] = "special.note"
    /\ LET l == pend[s] IN
       handover_notes' = add_handover_note(handover_notes, l.ymd, l.slot, l.hm, l.ts,
                                           l.text, "special", l.staff)
    /\ snack' = [snack EXCEPT ![s] = SNACK_SPECIAL_SAVED]
    /\ pc' = [pc EXCEPT ![s] = "idle"]
    /\ pend' = [pend EXCEPT ![s] = NoPend]
    /\ UNCHANGED <<clock, route, app, state, report_cache, recordTables,
                   support_logs, like_log, residents>>

-----------------------------------------------------------------------------
(* view_vitals *)

\* the values view_vitals starts with
DefaultVitals == [temperature |-> 365, bp_high |-> 120, bp_low |-> 80, pulse |-> 70,
                  spo2 |-> 97, respiration |-> 18, condition |-> "itsumo-dori"]

\* shift_date(days), today_btn: state["ymd"] changes (load_from_db fills the
\* form, whose values are the inputs of save)
shift_date(s, days) ==
    /\ route[s] = "/vitals"
    /\ Idle(s)
    /\ state[s].ymd + days \in Days
    /\ state' = [state EXCEPT ![s].ymd = @ + days]
    /\ UNCHANGED <<clock, route, app, report_cache, snack, pc, pend, recordTables,
                   support_logs, handover_notes, like_log, residents>>

\* the text view_vitals.save writes to the progress log
vitals_full(payload, prev_row, adv) ==
    <<"[vital]", payload.slot, " ", Str(payload.hm), ":",
      "taion" \o FormatTemp(payload.temperature),
      "ketsuatsu" \o Str(payload.bp_high) \o "/" \o Str(payload.bp_low),
      "myakuhaku" \o Str(payload.pulse),
      "SpO2 " \o Str(payload.spo2) \o "%",
      "kokyu" \o Str(payload.respiration),
      "ishiki-jotai:", payload.condition,
      "\n", "[zenkaihi]">> \o diff_str(payload, prev_row, FALSE)
    \o <<"\n", "[AI advice (prototype)]", "\n">> \o adv.detail

\* save up to upsert_vitals: the form holds vals, state = (ridx, ymd, slot, hm)
save(s, ridx, slot, hm, vals) ==
    /\ route[s] = "/vitals"
    /\ Idle(s)
    /\ RoomForNote
    /\ RoomForLog
    /\ LET r == RESIDENTS[ridx]
           payload == [resident_id |-> r.id, ymd |-> state[s].ymd, slot |-> slot,
                       hm |-> hm, ts |-> now_ts,
                       temperature |-> vals.temperature, bp_high |-> vals.bp_high,
                       bp_low |-> vals.bp_low, pulse |-> vals.pulse, spo2 |-> vals.spo2,
                       respiration |-> vals.respiration, condition |-> vals.condition,
                       staff_name |-> app[s].staff_name]
       IN \E prev \in get_prev_vitals(vitals, r.id, payload.ymd, slot) :
            /\ vitals' = upsert_vitals(vitals, payload)
            /\ pc' = [pc EXCEPT ![s] = "save.log"]
            /\ pend' = [pend EXCEPT ![s] =
                          [kind |-> "vitals", ridx |-> ridx, payload |-> payload,
                           prev |-> prev]]
    /\ UNCHANGED <<clock, route, app, state, report_cache, snack, baths, meals, meds,
                   patrols, support_logs, handover_notes, like_log, residents>>

\* save from add_progress_log on, with add_handover_note called whatever the flags
save_log_always_note(s) ==
    /\ pc[s] = "save.log"
    /\ LET p == pend[s].payload
           adv == advice_from_vitals(p, pend[s].prev)
       IN support_logs' = add_progress_log(support_logs, p.resident_id, p.ymd, p.slot,
                             p.hm, p.ts, vitals_full(p, pend[s].prev, adv),
                             p.staff_name, "negative")
    /\ pc' = [pc EXCEPT ![s] = "save.note"]
    /\ UNCHANGED <<clock, route, app, state, report_cache, snack, pend, recordTables,
                   handover_notes, like_log, residents>>

\* save from add_progress_log up to add_handover_note
save_log(s) ==
    /\ pc[s] = "save.log"
    /\ LET p == pend[s].payload
           adv == advice_from_vitals(p, pend[s].prev)
           urgent == "urgent" \in Range(adv.flags)
           sentiment == IF urgent \/ "watch" \in Range(adv.flags) THEN "negative" ELSE ""
       IN /\ support_logs' = add_progress_log(support_logs, p.resident_id, p.ymd, p.slot,
                                p.hm, p.ts, vitals_full(p, pend[s].prev, adv),
                                p.staff_name, sentiment)
          /\ IF urgent
             THEN /\ pc' = [pc EXCEPT ![s] = "save.note"]
                  /\ UNCHANGED <<pend, snack>>
             ELSE /\ pc' = [pc EXCEPT ![s] = "idle"]
                  /\ pend' = [pend EXCEPT ![s] = NoPend]
                  /\ snack' = [snack EXCEPT ![s] = SNACK_VITALS_SAVED]
    /\ UNCHANGED <<clock, route, app, state, report_cache, recordTables,
                   handover_notes, like_log, residents>>

\* save, urgent: add_handover_note(..., f"【至急】（自動）\n{report}", level="urgent")
save_note_urgent(s) ==
    /\ pc[s] = "save.note"
    /\ LET p == pend[s].payload
           r == RESIDENTS[pend[s].ridx]
           adv == advice_from_vitals(p, pend[s].prev)
           report == build_admin_report(p.staff_name, r.name, r.code, p, pend[s].prev, adv)
       IN handover_notes' = add_handover_note(handover_notes, p.ymd, p.slot, p.hm, p.ts,
                               <<"[shikyu]", "(jido)", "\n">> \o report, "urgent",
                               p.staff_name)
    /\ snack' = [snack EXCEPT ![s] = SNACK_VITALS_URGENT]
    /\ pc' = [pc EXCEPT ![s] = "idle"]
    /\ pend' = [pend EXCEPT ![s] = NoPend]
    /\ UNCHANGED <<clock, route, app, state, report_cache, recordTables,
                   support_logs, like_log, residents>>

SNACK_SAVE_ERROR == "hozon error"   \* 保存エラー: {ex}

\* save, except Exception: add_progress_log or add_handover_note raised (for
\* instance sqlite3.OperationalError, database is locked); what was committed
\* before stays
save_error(s) ==
    /\ pc[s] \in {"save.log", "save.note"}
    /\ snack' = [snack EXCEPT ![s] = SNACK_SAVE_ERROR]
    /\ pc' = [pc EXCEPT ![s] = "idle"]
    /\ pend' = [pend EXCEPT ![s] = NoPend]
    /\ UNCHANGED <<clock, route, app, state, report_cache, recordTables,
                   support_logs, handover_notes, like_log, residents>>

-----------------------------------------------------------------------------
(* view_bath, view_meal, view_meds, view_patrol *)

SNACK_SAVED == "hozon shimashita"   \* 保存しました

\* _date_nav_row.shift(days) followed by the view's reload()
shift(s, days) ==
    /\ route[s] \in {"/bath", "/meal", "/meds", "/patrol"}
    /\ Idle(s)
    /\ state[s].ymd + days \in Days
    /\ state' = [state EXCEPT ![s] = reload(route[s], [@ EXCEPT !.ymd = @ + days])]
    /\ UNCHANGED <<clock, route, app, report_cache, snack, pc, pend, recordTables,
                   support_logs, handover_notes, like_log, residents>>

\* view_bath.reload.set_status(new_status, rid)._h: state["hm"] = hm
set_status(s, ridx, new_status, hm) ==
    /\ route[s] = "/bath"
    /\ Idle(s)
    /\ baths' = upsert_bath(baths, RESIDENTS[ridx].id, state[s].ymd, hm, now_ts,
                            new_status, app[s].staff_name)
    /\ snack' = [snack EXCEPT ![s] = SNACK_SAVED]
    /\ UNCHANGED <<clock, route, app, state, report_cache, pc, pend, vitals, meals,
                   meds, patrols, support_logs, handover_notes, like_log, residents>>

\* view_meal.on_slot_change
on_slot_change(s, slot) ==
    /\ route[s] = "/meal"
    /\ Idle(s)
    /\ slot # state[s].slot
    /\ state' = [state EXCEPT ![s] = reload("/meal", [@ EXCEPT !.slot = slot])]
    /\ UNCHANGED <<clock, route, app, report_cache, snack, pc, pend, recordTables,
                   support_logs, handover_notes, like_log, residents>>

\* the stepper of row ridx: apply(delta_steps), then on_changed -> save_now up to
\* upsert_meal.  on_changed is "lambda v: save_now(v)": save_now is looked up
\* when the lambda runs, after the loop over RESIDENTS has ended, so it is the
\* save_now of the last resident whichever row's stepper was used.
save_now(s, ridx, delta_steps, hm) ==
    /\ route[s] = "/meal"
    /\ Idle(s)
    /\ RoomForLog
    /\ LET rid == RESIDENTS[ridx].id
           nv == clamp(state[s].amt[rid] + delta_steps, 1, 10)
           rid_ == RESIDENTS[Len(RESIDENTS)].id
           slot == state[s].slot
           staff == app[s].staff_name
       IN /\ state' = [state EXCEPT ![s].amt[rid] = nv]
          /\ meals' = upsert_meal(meals, rid_, state[s].ymd, slot, hm, now_ts, nv, staff)
          /\ pc' = [pc EXCEPT ![s] = "meal.log"]
          /\ pend' = [pend EXCEPT ![s] =
                        [kind |-> "log", resident_id |-> rid_, ymd |-> state[s].ymd,
                         hm |-> hm, ts |-> now_ts, staff |-> staff,
                         text |-> <<"[shokuji]">>
                                    \o build_meal_transcription(hm, slot, nv)]]
    /\ UNCHANGED <<clock, route, app, report_cache, snack, vitals, baths, meds,
                   patrols, support_logs, handover_notes, like_log, residents>>

\* the rest of a handler of view_meal, view_meds or view_patrol after its upsert:
\* add_progress_log(rid, ymd, default_slot_by_time(), hm, ts, text), reload()
\* (which reads the tables this step leaves as they are)
log_and_reload(s, at) ==
    /\ pc[s] = at
    /\ LET l == pend[s] IN
       support_logs' = add_progress_log(support_logs, l.resident_id, l.ymd,
                          default_slot_by_time, l.hm, l.ts, l.text, l.staff, "")
    /\ state' = [state EXCEPT ![s] = reload(route[s], @)]
    /\ pc' = [pc EXCEPT ![s] = "idle"]
    /\ pend' = [pend EXCEPT ![s] = NoPend]

\* save_now from add_progress_log on
save_now_log(s) ==
    /\ log_and_reload(s, "meal.log")
    /\ UNCHANGED <<clock, route, app, report_cache, snack, recordTables,
                   handover_notes, like_log, residents>>

\* save_now: add_progress_log raised (save_now catches nothing); the meal row
\* is stored, the list is not reloaded
save_now_error(s) ==
    /\ pc[s] = "meal.log"
    /\ pc' = [pc EXCEPT ![s] = "idle"]
    /\ pend' = [pend EXCEPT ![s] = NoPend]
    /\ UNCHANGED <<clock, route, app, state, report_cache, snack, recordTables,
                   support_logs, handover_notes, like_log, residents>>

\* view_meds.reload.set_taken(val, rid)._h up to upsert_meds: slot_dd.value = slot
set_taken(s, ridx, slot, val, hm) ==
    /\ route[s] = "/meds"
    /\ Idle(s)
    /\ RoomForLog
    /\ LET rid == RESIDENTS[ridx].id
           staff == app[s].staff_name
       IN /\ meds' = upsert_meds(meds, rid, state[s].ymd, slot, hm, now_ts, val, staff)
          /\ pc' = [pc EXCEPT ![s] = "meds.log"]
          /\ pend' = [pend EXCEPT ![s] =
                        [kind |-> "log", resident_id |-> rid, ymd |-> state[s].ymd,
                         hm |-> hm, ts |-> now_ts, staff |-> staff,
                         text |-> <<"[fukuyaku]">>
                                    \o build_meds_transcription(hm, slot, val)]]
    /\ UNCHANGED <<clock, route, app, state, report_cache, snack, vitals, baths,
                   meals, patrols, support_logs, handover_notes, like_log, residents>>

\* set_taken from add_progress_log on
set_taken_log(s) ==
    /\ log_and_reload(s, "meds.log")
    /\ snack' = [snack EXCEPT ![s] = SNACK_SAVED]
    /\ UNCHANGED <<clock, route, app, report_cache, recordTables,
                   handover_notes, like_log, residents>>

\* view_patrol.set_round
set_round(s, rn) ==
    /\ route[s] = "/patrol"
    /\ Idle(s)
    /\ rn # state[s].round
    /\ state' = [state EXCEPT ![s] = reload("/patrol", [@ EXCEPT !.round = rn])]
    /\ UNCHANGED <<clock, route, app, report_cache, snack, pc, pend, recordTables,
                   support_logs, handover_notes, like_log, residents>>

\* a handler of view_patrol up to upsert_patrol, writing (st, ok)
patrol_write(s, ridx, hm, st, ok) ==
    /\ route[s] = "/patrol"
    /\ Idle(s)
    /\ RoomForLog
    /\ LET rid == RESIDENTS[ridx].id
           staff == app[s].staff_name
           rn == state[s].round
       IN /\ patrols' = upsert_patrol(patrols, rid, state[s].ymd, rn, hm, now_ts,
                                      st, ok, staff)
          /\ pc' = [pc EXCEPT ![s] = "patrol.log"]
          /\ pend' = [pend EXCEPT ![s] =
                        [kind |-> "log", resident_id |-> rid, ymd |-> state[s].ymd,
                         hm |-> hm, ts |-> now_ts, staff |-> staff,
                         text |-> <<"[junshi]">>
                                    \o build_patrol_transcription(hm, rn, st, ok)]]
    /\ UNCHANGED <<clock, route, app, state, report_cache, snack, vitals, baths,
                   meals, meds, support_logs, handover_notes, like_log, residents>>

\* view_patrol.reload.save_state(new_state, rid)._h: old_ok is the safety_ok the
\* list showed at its last reload()
save_state(s, ridx, new_state, hm) ==
    patrol_write(s, ridx, hm, new_state,
                 state[s].pat_map[RESIDENTS[ridx].id].safety_ok)

\* view_patrol.reload.save_ok(rid)._h: old_state is the state the list showed at
\* its last reload(), "未" where it showed no row
save_ok(s, ridx, hm) ==
    patrol_write(s, ridx, hm, state[s].pat_map[RESIDENTS[ridx].id].state, 1)

\* save_state / save_ok from add_progress_log on
patrol_log(s) ==
    /\ log_and_reload(s, "patrol.log")
    /\ UNCHANGED <<clock, route, app, report_cache, snack, recordTables,
                   handover_notes, like_log, residents>>

-----------------------------------------------------------------------------
(* view_progress *)

ReportLogLimit == 12

\* _collect_recent_logs_text(resident_id, days=1, limit=12)
_collect_recent_logs_text(tbl, resident_id) ==
    LET ids == {i \in DOMAIN tbl : /\ tbl[i].resident_id = resident_id
                                   /\ tbl[i].ts >= clock - DayTicks}
        rows == Limit(OrderByTsDesc(tbl, ids), ReportLogLimit)
    IN [k \in DOMAIN rows |->
          LET l == tbl[rows[k]] IN
          <<"-", Str(l.ymd), " ", Str(l.hm), "(", l.slot, ")", " ">> \o l.text]

\* generate_ai_report: state["resident_idx"] = ridx
generate_ai_report(s, ridx) ==
    /\ route[s] = "/progress"
    /\ Idle(s)
    /\ LET r == RESIDENTS[ridx]
           staff == IF app[s].staff_name # "" THEN app[s].staff_name ELSE "(misentaku)"
           lines == _collect_recent_logs_text(support_logs, r.id)
           \* - 本日分の経過記録はまだありません。
           body == IF lines # <<>> THEN Join(lines, <<"\n">>)
                   ELSE <<"- honjitsu-bun no keika kiroku wa mada arimasen">>
           report == strip(
               <<"[hokoku-an]", "(keika kiroku matome)", "\n",
                 "- taisho:", r.name, "(", r.code, ")", "\n",
                 "- sakuseisha:", staff, "\n",
                 "- sakusei jikoku:", Str(today_ymd), " ", Str(now_hm), "\n",
                 "\n",
                 "# honjitsu no keika yoten", "\n">> \o body \o <<"\n",
                 "\n",
                 "# moshiokuri (an)", "\n",
                 "- juyo jiko ga areba tsuiki (fuon/tento/hatsunetsu/SpO2 teika)", "\n">>)
       IN report_cache' = [report_cache EXCEPT ![s] = report]
    /\ report_cache'[s] # report_cache[s]
    /\ UNCHANGED <<clock, route, app, state, snack, pc, pend, recordTables,
                   support_logs, handover_notes, like_log, residents>>

\* transfer_report_to_handover without its emptiness check
transfer_report_to_handover_unchecked(s) ==
    /\ route[s] = "/progress"
    /\ Idle(s)
    /\ RoomForNote
    /\ handover_notes' = add_handover_note(handover_notes, today_ymd,
                            default_slot_by_time, now_hm, now_ts,
                            strip(report_cache[s]), "normal", app[s].staff_name)
    /\ snack' = [snack EXCEPT ![s] = SNACK_TRANSFERRED]
    /\ UNCHANGED <<clock, route, app, state, report_cache, pc, pend, recordTables,
                   support_logs, like_log, residents>>

\* transfer_report_to_handover
transfer_report_to_handover(s) ==
    /\ route[s] = "/progress"
    /\ Idle(s)
    /\ LET text == strip(report_cache[s]) IN
       IF text = <<>>
       THEN /\ snack' = [snack EXCEPT ![s] = SNACK_NEED_REPORT]
            /\ UNCHANGED handover_notes
       ELSE /\ RoomForNote
            /\ handover_notes' = add_handover_note(handover_notes, today_ymd,
                                    default_slot_by_time, now_hm, now_ts, text,
                                    "normal", app[s].staff_name)
            /\ snack' = [snack EXCEPT ![s] = SNACK_TRANSFERRED]
    /\ UNCHANGED <<clock, route, app, state, report_cache, pc, pend, recordTables,
                   support_logs, like_log, residents>>

\* open_resident_picker.pick_idx(idx): state["resident_idx"] = idx; reload()
pick_idx(s, idx) ==
    /\ route[s] = "/progress"
    /\ Idle(s)
    /\ state' = [state EXCEPT ![s] = reload_progress([state[s] EXCEPT !.resident_idx = idx])]
    /\ UNCHANGED <<clock, route, app, report_cache, snack, pc, pend, recordTables,
                   support_logs, handover_notes, like_log, residents>>

\* set_days(days): state["filter_days"] = days; reload()
set_days(s, days) ==
    /\ route[s] = "/progress"
    /\ Idle(s)
    /\ state' = [state EXCEPT ![s] = reload_progress([state[s] EXCEPT !.filter_days = days])]
    /\ UNCHANGED <<clock, route, app, report_cache, snack, pc, pend, recordTables,
                   support_logs, handover_notes, like_log, residents>>

\* 更新: reload()
refresh(s) ==
    /\ route[s] = "/progress"
    /\ Idle(s)
    /\ state' = [state EXCEPT ![s] = reload_progress(state[s])]
    /\ UNCHANGED <<clock, route, app, report_cache, snack, pc, pend, recordTables,
                   support_logs, handover_notes, like_log, residents>>

\* main(page) for a page that opens: init_db_if_needed(), app = {"staff_name":
\* ""}, push_route("/login")
main(s) ==
    /\ Idle(s)
    /\ residents' = init_db_if_needed(residents)
    /\ app' = [app EXCEPT ![s] = [staff_name |-> ""]]
    /\ route' = [route EXCEPT ![s] = "/login"]
    /\ state' = [state EXCEPT ![s] = ViewState("/login")]
    /\ report_cache' = [report_cache EXCEPT ![s] = <<>>]
    /\ UNCHANGED <<clock, snack, pc, pend, recordTables, support_logs, handover_notes,
                   like_log>>

-----------------------------------------------------------------------------
(* Initial states *)

\* main(): init_db_if_needed() on a fresh database, app = {"staff_name": ""},
\* push_route("/login")
Init ==
    /\ clock = 0
    /\ route = [s \in Sessions |-> "/login"]
    /\ app = [s \in Sessions |-> [staff_name |-> ""]]
    /\ state = [s \in Sessions |-> [ymd |-> 0]]
    /\ report_cache = [s \in Sessions |-> <<>>]
    /\ snack = [s \in Sessions |-> ""]
    /\ pc = [s \in Sessions |-> "idle"]
    /\ pend = [s \in Sessions |-> NoPend]
    /\ vitals = {}
    /\ support_logs = <<>>
    /\ handover_notes = <<>>
    /\ baths = {}
    /\ meals = {}
    /\ meds = {}
    /\ patrols = {}
    /\ like_log = [k \in (1..MaxNotes) \X Sessions \X StaffNames |-> 0]
    /\ residents = init_db_if_needed({})

\* rows an existing database can hold in residents: ids of RESIDENTS and one
\* further id, with or without a diagnosis and a care level
ExistingRows ==
    {[id |-> i, code |-> "K", name |-> "kizon", diagnosis_main |-> d,
      diagnosis_free |-> "", care_level |-> c] :
        i \in 0..NResidents, d \in {"", "shindan"}, c \in {"", "kubun3"}}
ExistingResidents ==
    {tbl \in SUBSET ExistingRows : \A x, y \in tbl : x.id = y.id => x = y}

\* main() is about to run on an existing database
InitExistingDb ==
    /\ clock = 0
    /\ route = [s \in Sessions |-> "/login"]
    /\ app = [s \in Sessions |-> [staff_name |-> ""]]
    /\ state = [s \in Sessions |-> [ymd |-> 0]]
    /\ report_cache = [s \in Sessions |-> <<>>]
    /\ snack = [s \in Sessions |-> ""]
    /\ pc = [s \in Sessions |-> "idle"]
    /\ pend = [s \in Sessions |-> NoPend]
    /\ vitals = {}
    /\ support_logs = <<>>
    /\ handover_notes = <<>>
    /\ baths = {}
    /\ meals = {}
    /\ meds = {}
    /\ patrols = {}
    /\ like_log = [k \in (1..MaxNotes) \X Sessions \X StaffNames |-> 0]
    /\ residents \in ExistingResidents

\* every session has logged in and picked a staff member: the state after
\* do_login and pick_staff in each session
InitMenu ==
    /\ clock = 0
    /\ route = [s \in Sessions |-> "/menu"]
    /\ app \in [Sessions -> [staff_name : Range(STAFFS)]]
    /\ state = [s \in Sessions |-> [ymd |-> 0]]
    /\ report_cache = [s \in Sessions |-> <<>>]
    /\ snack = [s \in Sessions |-> ""]
    /\ pc = [s \in Sessions |-> "idle"]
    /\ pend = [s \in Sessions |-> NoPend]
    /\ vitals = {}
    /\ support_logs = <<>>
    /\ handover_notes = <<>>
    /\ baths = {}
    /\ meals = {}
    /\ meds = {}
    /\ patrols = {}
    /\ like_log = [k \in (1..MaxNotes) \X Sessions \X StaffNames |-> 0]
    /\ residents = init_db_if_needed({})

\* one session has logged in and picked a staff member, the others have not yet
InitOne ==
    /\ clock = 0
    /\ route = [s \in Sessions |-> IF s = 1 THEN "/menu" ELSE "/login"]
    /\ \E name \in Range(STAFFS) :
          app = [s \in Sessions |-> [staff_name |-> IF s = 1 THEN name ELSE ""]]
    /\ state = [s \in Sessions |-> [ymd |-> 0]]
    /\ report_cache = [s \in Sessions |-> <<>>]
    /\ snack = [s \in Sessions |-> ""]
    /\ pc = [s \in Sessions |-> "idle"]
    /\ pend = [s \in Sessions |-> NoPend]
    /\ vitals = {}
    /\ support_logs = <<>>
    /\ handover_notes = <<>>
    /\ baths = {}
    /\ meals = {}
    /\ meds = {}
    /\ patrols = {}
    /\ like_log = [k \in (1..MaxNotes) \X Sessions \X StaffNames |-> 0]
    /\ residents = init_db_if_needed({})

-----------------------------------------------------------------------------
(* The handover board: manual posts and likes, two sessions *)

NextBoard ==
    \/ Tick
    \/ \E s \in Sessions : menu_tile(s, "/handover")
    \/ \E s \in Sessions : view_back(s)
    \/ \E s \in Sessions, txt \in TypedTexts : save_note(s, txt, default_slot_by_time)
    \/ \E s \in Sessions, nid \in 1..MaxNotes : like_handler(s, nid)

SpecBoard == InitMenu /\ [][NextBoard]_vars

(* Manual posts only, within one tick of the clock *)

NextPost ==
    \/ \E s \in Sessions : menu_tile(s, "/handover")
    \/ \E s \in Sessions : view_back(s)
    \/ \E s \in Sessions, txt \in TypedTexts : save_note(s, txt, default_slot_by_time)

SpecPost == InitMenu /\ [][NextPost]_vars

(* The paths into the handover board, one after another in one session and   *)
(* within one tick of the clock, for the first resident: manual post,        *)
(* special note, urgent vitals, report transfer                              *)

\* the form values tried: the defaults, SpO2 92 (urgent), and 38.5 degrees with
\* 活気なし (urgent)
FlowVitals == {DefaultVitals, [DefaultVitals EXCEPT !.spo2 = 92],
               [DefaultVitals EXCEPT !.temperature = 385, !.condition = "kakki-nashi"]}
\* the session that acts: the one InitOne has logged in
FlowSession == 1

NextFlow ==
    \/ \E r \in {"/handover", "/special", "/vitals", "/progress"} :
          menu_tile(FlowSession, r)
    \/ view_back(FlowSession)
    \/ \E txt \in TypedTexts : save_note(FlowSession, txt, default_slot_by_time)
    \/ \E txt \in TypedTexts :
          save_special(FlowSession, 1, txt, default_slot_by_time, now_hm)
    \/ save_special_note(FlowSession)
    \/ \E vals \in FlowVitals :
          save(FlowSession, 1, default_slot_by_time, now_hm, vals)
    \/ save_log(FlowSession)
    \/ save_note_urgent(FlowSession)
    \/ generate_ai_report(FlowSession, 1)
    \/ transfer_report_to_handover(FlowSession)

SpecFlow == InitOne /\ [][NextFlow]_vars

(* Vitals saves of two sessions *)

NextVitals ==
    \/ Tick
    \/ \E s \in Sessions : menu_tile(s, "/vitals")
    \/ \E s \in Sessions, vals \in FlowVitals :
          save(s, 1, default_slot_by_time, now_hm, vals)
    \/ \E s \in Sessions : save_log(s)
    \/ \E s \in Sessions : save_note_urgent(s)

SpecVitals == InitMenu /\ [][NextVitals]_vars

(* Special notes of two sessions *)

NextSpecial ==
    \/ Tick
    \/ \E s \in Sessions : menu_tile(s, "/special")
    \/ \E s \in Sessions, i \in ResidentIdx, txt \in TypedTexts :
          save_special(s, i, txt, default_slot_by_time, now_hm)
    \/ \E s \in Sessions : save_special_note(s)

SpecSpecial == InitMenu /\ [][NextSpecial]_vars

(* The progress listing of one session over more than a day: special         *)
(* notes are saved at the time of day the clock shows, then listed           *)

\* the clock runs until a row written at tick 0 has left the one-day window
LastTick == DayTicks + 1

\* time passes, for more than a day
TickDays ==
    /\ clock < LastTick
    /\ clock' = clock + 1
    /\ UNCHANGED <<sessionVars, recordTables, support_logs, handover_notes, like_log,
                   residents>>

NextProgress ==
    \/ TickDays
    \/ \E r \in {"/special", "/progress"} : menu_tile(FlowSession, r)
    \/ view_back(FlowSession)
    \/ \E i \in ResidentIdx :
          save_special(FlowSession, i, <<"x">>, default_slot_by_time, now_hm)
    \/ save_special_note(FlowSession)
    \/ \E i \in ResidentIdx : pick_idx(FlowSession, i)
    \/ \E days \in FilterDays : set_days(FlowSession, days)
    \/ refresh(FlowSession)

SpecProgress == InitOne /\ [][NextProgress]_vars

(* Likes of one session on a board that holds manual posts and special      *)
(* notes, within one tick of the clock                                       *)

NextLike ==
    \/ \E r \in {"/special", "/handover"} : menu_tile(FlowSession, r)
    \/ view_back(FlowSession)
    \/ save_note(FlowSession, <<"x">>, default_slot_by_time)
    \/ \E i \in ResidentIdx :
          save_special(FlowSession, i, <<"x">>, default_slot_by_time, now_hm)
    \/ save_special_note(FlowSession)
    \/ \E nid \in 1..MaxNotes : like_handler(FlowSession, nid)

SpecLike == InitOne /\ [][NextLike]_vars

(* The store's like function called with any id, next to manual posts      *)

NextLikeCall ==
    \/ menu_tile(FlowSession, "/handover")
    \/ view_back(FlowSession)
    \/ \E txt \in TypedTexts : save_note(FlowSession, txt, default_slot_by_time)
    \/ \E nid \in 1..MaxNotes : inc_handover_like_call(FlowSession, nid)

SpecLikeCall == InitOne /\ [][NextLikeCall]_vars

(* Vitals saves of one session around the urgent thresholds, within one     *)
(* tick of the clock                                                         *)

\* the form values tried: SpO2 92 and 93, 38.5 and 38.4 degrees with 傾眠,
\* and the defaults
UrgentVitals ==
    {DefaultVitals,
     [DefaultVitals EXCEPT !.spo2 = 92],
     [DefaultVitals EXCEPT !.spo2 = 93],
     [DefaultVitals EXCEPT !.temperature = 385, !.condition = "keimin"],
     [DefaultVitals EXCEPT !.temperature = 384, !.condition = "keimin"]}

NextUrgent ==
    \/ menu_tile(FlowSession, "/vitals")
    \/ view_back(FlowSession)
    \/ \E vals \in UrgentVitals :
          save(FlowSession, 1, default_slot_by_time, now_hm, vals)
    \/ save_log(FlowSession)
    \/ save_note_urgent(FlowSession)
    \/ save_error(FlowSession)

SpecUrgent == InitOne /\ [][NextUrgent]_vars

(* Saves in the views that transcribe to the progress log, one session,    *)
(* within one tick of the clock                                              *)

NextTranscribe ==
    \/ \E r \in {"/vitals", "/meal", "/meds", "/patrol"} : menu_tile(FlowSession, r)
    \/ view_back(FlowSession)
    \/ save(FlowSession, 1, default_slot_by_time, now_hm, DefaultVitals)
    \/ save_log(FlowSession)
    \/ \E i \in ResidentIdx, d \in {-1, 1} : save_now(FlowSession, i, d, now_hm)
    \/ save_now_log(FlowSession)
    \/ \E i \in ResidentIdx, val \in {0, 1} : set_taken(FlowSession, i, "asa", val, now_hm)
    \/ set_taken_log(FlowSession)
    \/ \E i \in ResidentIdx : save_state(FlowSession, i, "shushin", now_hm)
    \/ \E i \in ResidentIdx : save_ok(FlowSession, i, now_hm)
    \/ patrol_log(FlowSession)

SpecTranscribe == InitOne /\ [][NextTranscribe]_vars

(* Pages opening on an existing database, and the way to the menu          *)

NextInitDb ==
    \/ \E s \in Sessions : main(s)
    \/ do_login(FlowSession)
    \/ \E name \in Range(STAFFS) : pick_staff(FlowSession, name)

SpecInitDb == InitExistingDb /\ [][NextInitDb]_vars

(* The meal steppers of the first and the last row, one session, within   *)
(* one tick of the clock                                                     *)

NextMeal ==
    \/ menu_tile(FlowSession, "/meal")
    \/ view_back(FlowSession)
    \/ \E i \in {1, NResidents}, d \in {-1, 1} : save_now(FlowSession, i, d, now_hm)
    \/ save_now_log(FlowSession)
    \/ save_now_error(FlowSession)

SpecMeal == InitOne /\ [][NextMeal]_vars

(* Likes of every session on the posts of one, within one tick of the     *)
(* clock                                                                     *)

NextLikes ==
    \/ \E s \in Sessions : menu_tile(s, "/handover")
    \/ save_note(FlowSession, <<"x">>, default_slot_by_time)
    \/ \E s \in Sessions, nid \in 1..MaxNotes : like_handler(s, nid)

SpecLikes == InitMenu /\ [][NextLikes]_vars

(* The patrol lists of two sessions, first resident, within one tick of    *)
(* the clock                                                                 *)

NextPatrol ==
    \/ \E s \in Sessions : menu_tile(s, "/patrol")
    \/ \E s \in Sessions : view_back(s)
    \/ \E s \in Sessions, st \in {"shushin", "fuon"} : save_state(s, 1, st, now_hm)
    \/ \E s \in Sessions : save_ok(s, 1, now_hm)
    \/ \E s \in Sessions : patrol_log(s)

SpecPatrol == InitMenu /\ [][NextPatrol]_vars

(* The record views, one session, starting at /login, within one tick of    *)
(* the clock; a route can also be entered from outside                       *)

StoreSession == 1
StoreViews == {"/vitals", "/bath", "/meal", "/meds", "/patrol"}

NextStore ==
    \/ do_login(StoreSession)
    \/ \E name \in Range(STAFFS) : pick_staff(StoreSession, name)
    \/ staff_back(StoreSession)
    \/ logout(StoreSession)
    \/ \E r \in StoreViews : menu_tile(StoreSession, r)
    \/ view_back(StoreSession)
    \/ \E r \in StoreViews : url_route(StoreSession, r)
    \/ save(StoreSession, 1, default_slot_by_time, now_hm, DefaultVitals)
    \/ save_log(StoreSession)
    \/ \E st \in {"bath", "refuse"} : set_status(StoreSession, 1, st, now_hm)
    \/ on_slot_change(StoreSession, "hiru")
    \/ \E d \in {-1, 1} : save_now(StoreSession, 1, d, now_hm)
    \/ save_now_log(StoreSession)
    \/ \E val \in {0, 1} : set_taken(StoreSession, 1, "asa", val, now_hm)
    \/ set_taken_log(StoreSession)
    \/ set_round(StoreSession, "2kaime")
    \/ \E st \in {"shushin", "fuon"} : save_state(StoreSession, 1, st, now_hm)
    \/ save_ok(StoreSession, 1, now_hm)
    \/ patrol_log(StoreSession)

SpecStore == Init /\ [][NextStore]_vars

(* The application's own navigation from /login, one session, within one    *)
(* tick of the clock: every button that calls nav(), and a save in each      *)
(* view that writes                                                          *)

NextNav ==
    \/ do_login(StoreSession)
    \/ \E name \in Range(STAFFS) : pick_staff(StoreSession, name)
    \/ staff_back(StoreSession)
    \/ logout(StoreSession)
    \/ \E r \in MenuTiles : menu_tile(StoreSession, r)
    \/ view_back(StoreSession)
    \/ \E r \in {"/progress", "/handover"} : view_link(StoreSession, r)
    \/ save_note(StoreSession, <<"x">>, default_slot_by_time)
    \/ save_special(StoreSession, 1, <<"x">>, default_slot_by_time, now_hm)
    \/ save_special_note(StoreSession)
    \/ save(StoreSession, 1, default_slot_by_time, now_hm, DefaultVitals)
    \/ save_log(StoreSession)
    \/ set_status(StoreSession, 1, "bath", now_hm)
    \/ save_now(StoreSession, 1, -1, now_hm)
    \/ save_now_log(StoreSession)
    \/ set_taken(StoreSession, 1, "asa", 1, now_hm)
    \/ set_taken_log(StoreSession)
    \/ save_state(StoreSession, 1, "shushin", now_hm)
    \/ patrol_log(StoreSession)

SpecNav == Init /\ [][NextNav]_vars


-----------------------------------------------------------------------------
(* Acknowledgement marks as the program holds them.  The program keeps one     *)
(* counter per note (handover_notes.likes); like_log attributes its increments *)
(* to the sessions and staff names that made them.                             *)

RECURSIVE SumOver(_, _)
SumOver(f, S) ==
    IF S = {} THEN 0
    ELSE LET x == CHOOSE y \in S : TRUE IN f[x] + SumOver(f, S \ {x})

\* marks of person p on note nid
MarksBy(nid, p) == SumOver([s \in Sessions |-> like_log[<<nid, s, p>>]], Sessions)
\* hasMark(h, p, like)
hasMark(nid, p) == MarksBy(nid, p) > 0
\* persons who have acted on note nid
Actors(nid) == {p \in StaffNames : hasMark(nid, p)}
\* sessions that have acted on note nid
ActingSessions(nid, p) == {s \in Sessions : like_log[<<nid, s, p>>] > 0}

IsBlank(t) == \A i \in 1..Len(t) : IsSpace(t[i])

-----------------------------------------------------------------------------
(* Claims *)

\* C2: the like action is an involution: performing it twice in a row returns the
\* note to the state before.  Every note starts with no mark, so whenever each
\* session has pressed like on a note an even number of times (each press paired
\* with its repeat) the note's mark count is back at 0.
C2_ToggleTwiceRestores ==
    \A nid \in DOMAIN handover_notes :
        (\A s \in Sessions, p \in StaffNames : like_log[<<nid, s, p>>] % 2 = 0)
        => handover_notes[nid].likes = 0

\* C3: a person holds at most one mark on a note, so the mark count of a note
\* never exceeds the number of distinct persons who have acted on it.
C3_MarkUnique ==
    \A nid \in DOMAIN handover_notes :
        /\ \A p \in StaffNames : MarksBy(nid, p) <= 1
        /\ handover_notes[nid].likes <= Cardinality(Actors(nid))

\* C4: strict toggle: a like by a person without a mark adds the mark, a like by
\* a person who holds the mark removes it; never a no-op, never a duplicate.
C4_StrictToggle ==
    [][\A s \in Sessions, nid \in 1..MaxNotes :
        like_handler(s, nid) =>
            LET p == app[s].staff_name IN
            IF hasMark(nid, p)
            THEN /\ like_log'[<<nid, s, p>>] = 0
                 /\ handover_notes'[nid].likes = handover_notes[nid].likes - 1
            ELSE /\ like_log'[<<nid, s, p>>] = 1
                 /\ handover_notes'[nid].likes = handover_notes[nid].likes + 1]_vars

\* C5: after likes on one note from two sessions of the same person, and from
\* nobody else, the note holds at most one mark (the person's).
C5_SamePersonTwoSessions ==
    \A nid \in DOMAIN handover_notes, p \in StaffNames :
        (/\ Actors(nid) = {p}
         /\ \E s1, s2 \in ActingSessions(nid, p) : s1 # s2)
        => handover_notes[nid].likes <= 1

\* C7: a manual post whose text is blank (empty after trimming) is rejected with
\* the message "内容が空です": no row is inserted and the listing is unchanged.
C7_BlankPostRejected ==
    [][\A s \in Sessions, txt \in TypedTexts :
        (IsBlank(txt) /\ save_note(s, txt, default_slot_by_time)) =>
            /\ handover_notes' = handover_notes
            /\ HandoverListing(handover_notes') = HandoverListing(handover_notes)
            /\ snack'[s] = SNACK_EMPTY]_vars

\* C7 witness: a blank post was rejected while the board already holds a note
C7_Witness ==
    \E s \in Sessions : snack[s] = SNACK_EMPTY /\ Len(handover_notes) >= 1

-----------------------------------------------------------------------------
(* Claims about propagation into the handover board (SpecFlow) *)

\* the handover entries an urgent vitals save of (resident, date, slot) wrote:
\* level "urgent", the row's ymd and slot, and the report naming the resident
UrgentEntriesOf(r, ymd, slot) ==
    {nid \in DOMAIN handover_notes :
        LET n == handover_notes[nid] IN
        /\ n.level = "urgent"
        /\ n.ymd = ymd
        /\ n.slot = slot
        /\ Len(n.text) >= 10
        /\ n.text[8] = r.name
        /\ n.text[10] = r.code}

\* C1: at-most-one propagation -- for every vitals record (resident, date,
\* slot), however often it was saved, at most one handover entry originates
\* from it.
C1_AtMostOnePropagation ==
    \A i \in ResidentIdx, ymd \in Days, k \in DOMAIN SLOTS :
        Cardinality(UrgentEntriesOf(RESIDENTS[i], ymd, SLOTS[k])) <= 1

\* the progress-log rows a special handover entry can have come from: the row
\* save_special wrote with the same ymd, slot, hm, ts, staff and note text
SpecialSourcesOf(n) ==
    {lid \in DOMAIN support_logs :
        LET l == support_logs[lid] IN
        /\ l.ymd = n.ymd /\ l.slot = n.slot /\ l.hm = n.hm /\ l.ts = n.ts
        /\ l.staff_name = n.staff_name
        /\ Len(l.text) >= 1 /\ l.text[1] = "[tokki-jiko]"
        /\ Len(n.text) >= 3
        /\ Tail(l.text) = SubSeq(n.text, 4, Len(n.text))
        /\ \E i \in ResidentIdx : /\ RESIDENTS[i].id = l.resident_id
                                  /\ RESIDENTS[i].name = n.text[2]}

\* C6: propagation rule -- a special-note save with a non-empty note creates
\* exactly one handover entry, and every such entry identifies the one record
\* it came from.
C6_SpecialPropagationTraceable ==
    /\ [][\A s \in Sessions :
            save_special_note(s) => Len(handover_notes') = Len(handover_notes) + 1]_vars
    /\ [](\A nid \in DOMAIN handover_notes :
            handover_notes[nid].level = "special" =>
                Cardinality(SpecialSourcesOf(handover_notes[nid])) = 1)

\* C8: no blank persisted text -- every stored handover entry has a text that
\* is non-empty after trimming, whichever path wrote it, and a save whose
\* trimmed note is empty writes no handover entry.
C8_NoBlankHandoverText ==
    /\ [](\A nid \in DOMAIN handover_notes : ~IsBlank(handover_notes[nid].text))
    /\ [][\A s \in Sessions, i \in ResidentIdx, txt \in TypedTexts :
            (IsBlank(txt) /\ (\/ save_note(s, txt, default_slot_by_time)
                              \/ save_special(s, i, txt, default_slot_by_time, now_hm)))
                => (handover_notes' = handover_notes /\ pc'[s] = "idle")]_vars
    /\ [][\A s \in Sessions :
            (IsBlank(report_cache[s]) /\ transfer_report_to_handover(s))
                => handover_notes' = handover_notes]_vars

\* entries of two different paths are stored and a blank save was turned away
C8_Witness ==
    /\ \E s \in Sessions : snack[s] \in {SNACK_EMPTY, SNACK_NEED_REPORT}
    /\ \E n1, n2 \in DOMAIN handover_notes :
          /\ handover_notes[n1].level \in {"special", "urgent"}
          /\ handover_notes[n2].level = "normal"

-----------------------------------------------------------------------------
(* Claims about the record store (SpecStore) *)

AllAuthors ==
    {r.staff_name : r \in vitals \cup baths \cup meals \cup meds \cup patrols}
    \cup {support_logs[i].staff_name : i \in DOMAIN support_logs}
    \cup {handover_notes[i].staff_name : i \in DOMAIN handover_notes}

\* C9: the store rejects a save whose author name is blank -- no stored record,
\* progress-log row or handover entry ever has an empty author name.
C9_NoBlankAuthorStored == "" \notin AllAuthors

\* a save appended one row to the table and kept every row it held
Grows(tbl, tbl2) == tbl \subseteq tbl2 /\ Cardinality(tbl2) = Cardinality(tbl) + 1

\* C10: insert-only save -- every save of a vitals, meal, medication, patrol
\* or bath record adds one new row to its table and leaves every stored row
\* as it was, also when it repeats the parameters of an earlier save.
C10_InsertOnlySave ==
    [][/\ \A s \in Sessions :
            /\ (pc[s] = "idle" /\ pc'[s] = "save.log") => Grows(vitals, vitals')
            /\ (pc[s] = "idle" /\ pc'[s] = "meal.log") => Grows(meals, meals')
            /\ (pc[s] = "idle" /\ pc'[s] = "meds.log") => Grows(meds, meds')
            /\ (pc[s] = "idle" /\ pc'[s] = "patrol.log") => Grows(patrols, patrols')
       /\ baths' # baths => Grows(baths, baths')]_vars

\* every row of an id-keyed table is still stored under its id
KeptIds(tbl, tbl2) == \A i \in DOMAIN tbl : i \in DOMAIN tbl2

\* C11: no physical delete -- every record and every handover entry that was
\* ever created is still stored under the same identity: no step removes a row
\* of a record table, of the progress log or of the handover board.
C11_NoRowRemoved ==
    [][/\ vitals \subseteq vitals'
       /\ baths \subseteq baths'
       /\ meals \subseteq meals'
       /\ meds \subseteq meds'
       /\ patrols \subseteq patrols'
       /\ KeptIds(support_logs, support_logs')
       /\ \A i \in DOMAIN support_logs : support_logs'[i] = support_logs[i]
       /\ KeptIds(handover_notes, handover_notes')]_vars

-----------------------------------------------------------------------------
(* Claims about the writes of one save (SpecUrgent) *)

\* the progress-log rows transcribed from the vitals row r
TranscriptionsOf(r) ==
    {i \in DOMAIN support_logs :
        /\ support_logs[i].resident_id = r.resident_id
        /\ support_logs[i].ymd = r.ymd
        /\ support_logs[i].slot = r.slot
        /\ support_logs[i].ts = r.ts
        /\ support_logs[i].text[1] = "[vital]"}

\* the vitals row r is one that save propagates to the handover board
IsUrgentRow(r) ==
    \/ r.spo2 <= 92
    \/ r.temperature >= 385 /\ r.condition \in {"kakki-nashi", "keimin"}

\* C12: the writes of one save are visible all together or not at all -- in
\* no state is a vitals row stored without its progress-log transcription, or
\* an urgent vitals row without its handover entry.
C12_SaveAtomic ==
    \A r \in vitals :
        /\ TranscriptionsOf(r) # {}
        /\ IsUrgentRow(r) =>
              UrgentEntriesOf(RESIDENTS[r.resident_id + 1], r.ymd, r.slot) # {}

-----------------------------------------------------------------------------
(* Claims about removal (SpecSpecial) *)

\* the columns of a stored row
Columns(row) == DOMAIN row

\* C13: soft delete is idempotent and keeps the row -- a soft-deleted row stays
\* stored with its delete flag set and is left out of the active listings;
\* for that, every stored progress-log row and handover entry has a delete
\* flag that a soft delete can set.
C13_SoftDeleteFlagStored ==
    /\ \A i \in DOMAIN support_logs : "deleted" \in Columns(support_logs[i])
    /\ \A i \in DOMAIN handover_notes : "deleted" \in Columns(handover_notes[i])

-----------------------------------------------------------------------------
(* Claims about the order of the listings *)

\* C14: the handover listing shows the most recently created entry first --
\* of two listed entries the one created later (AUTOINCREMENT: the higher id)
\* comes first, also when both were created within the same clock second.
C14_NewestFirst ==
    LET listing == HandoverListing(handover_notes) IN
    \A p, q \in 1..Len(listing) : p < q => listing[p] > listing[q]

\* the progress listings of every resident under every filter, as reload
\* computes them now
ProgressListings ==
    {ProgressListing(support_logs, rid, fd, clock) : rid \in ResidentIds, fd \in FilterDays}

\* C15: the record listing of a resident is ordered by time of day (hm)
\* ascending, rows of equal time by id ascending, whatever the order of entry.
C15_TimeOfDayAscending ==
    \A listing \in ProgressListings :
        \A p, q \in 1..Len(listing) :
            p < q => \/ support_logs[listing[p]].hm < support_logs[listing[q]].hm
                     \/ /\ support_logs[listing[p]].hm = support_logs[listing[q]].hm
                        /\ listing[p] < listing[q]

\* a is the beginning of b
IsPrefix(a, b) == Len(a) <= Len(b) /\ a = SubSeq(b, 1, Len(a))

-----------------------------------------------------------------------------
(* Claims about the like button (SpecLike) *)

\* the likes recorded for the entry nid, over all sessions and persons
PressesOf(log, nid) ==
    SumOver(log, {k \in DOMAIN log : k[1] = nid})

\* C17: a like changes only the acknowledgement state of the entry it is
\* pressed on -- the step leaves every record and every progress-log row as it
\* was, adds and removes no handover entry, and leaves the text, author and
\* every other column of every entry, and the likes of every other entry,
\* unchanged.
C17_LikeFrame ==
    [][like_log' # like_log =>
         \E nid \in DOMAIN handover_notes :
            /\ PressesOf(like_log', nid) = PressesOf(like_log, nid) + 1
            /\ DOMAIN handover_notes' = DOMAIN handover_notes
            /\ handover_notes'[nid] = [handover_notes[nid] EXCEPT !.likes = @ + 1]
            /\ \A other \in DOMAIN handover_notes \ {nid} :
                  handover_notes'[other] = handover_notes[other]
            /\ recordTables' = recordTables
            /\ support_logs' = support_logs]_vars

\* a like was pressed on one entry while another entry and a progress-log row
\* were stored
C17_Witness ==
    \E nid, other \in DOMAIN handover_notes :
        /\ nid # other
        /\ handover_notes[nid].likes >= 1
        /\ PressesOf(like_log, nid) >= 1
        /\ handover_notes[other].likes = 0
        /\ support_logs # <<>>

\* C18: a like (toggle) called once by a person for an id that is not stored is
\* taken as "nothing to remove, so add" -- afterwards a mark for that id and
\* person exists: the id is stored with at least one like.
C18_MissingIdAdds ==
    \A nid \in 1..MaxNotes, s \in Sessions, p \in StaffNames :
        like_log[<<nid, s, p>>] = 1 =>
            /\ nid \in DOMAIN handover_notes
            /\ handover_notes[nid].likes >= 1

-----------------------------------------------------------------------------
(* Claims about manual posts (SpecPost) *)

\* C19: manual posts are not deduplicated -- every accepted post, also one
\* whose text is already on the board, adds one entry under a fresh id (the
\* next one) with the posted columns, and leaves every stored entry in place.
C19_NoDedup ==
    [][(\/ handover_notes' # handover_notes
        \/ \E s \in Sessions : snack'[s] = SNACK_NOTE_SAVED /\ snack[s] # SNACK_NOTE_SAVED)
       => /\ Len(handover_notes') = Len(handover_notes) + 1
          /\ \A i \in DOMAIN handover_notes : handover_notes'[i] = handover_notes[i]
          /\ handover_notes'[Len(handover_notes')].level = "normal"
          /\ ~IsBlank(handover_notes'[Len(handover_notes')].text)]_vars

\* the same text was posted twice by the same person in the same second: two
\* entries that agree in every column are stored under two ids
C19_Witness ==
    \E i, j \in DOMAIN handover_notes :
        /\ i # j
        /\ handover_notes[i] = handover_notes[j]
        /\ handover_notes[i].level = "normal"

-----------------------------------------------------------------------------
(* Claims about the urgent propagation (SpecUrgent) *)

\* C20: a vitals save writes a handover entry, of level "urgent", exactly when
\* the saved values are urgent (SpO2 <= 92, or 38.5 degrees or more with
\* 活気なし or 傾眠) -- after its progress-log row the save goes on to the
\* handover entry iff the values are urgent and otherwise ends with the board
\* as it was; the entry it then writes is one new entry of level "urgent" for
\* the saved date, slot and time; and nothing else in a vitals save writes to
\* the board.  (A save that ends in 保存エラー writes no further row.)
C20_UrgentIff ==
    [][\A s \in Sessions :
        /\ (pc[s] = "save.log" /\ support_logs' # support_logs) =>
              /\ pc'[s] = "save.note" <=> IsUrgentRow(pend[s].payload)
              /\ pc'[s] # "save.note" =>
                    pc'[s] = "idle" /\ snack'[s] = SNACK_VITALS_SAVED
              /\ handover_notes' = handover_notes
        /\ (pc[s] = "save.note" /\ pc'[s] = "idle" /\ snack'[s] # SNACK_SAVE_ERROR) =>
              /\ Len(handover_notes') = Len(handover_notes) + 1
              /\ \A i \in DOMAIN handover_notes : handover_notes'[i] = handover_notes[i]
              /\ LET n == handover_notes'[Len(handover_notes')]
                     p == pend[s].payload
                 IN /\ n.level = "urgent"
                    /\ n.ymd = p.ymd /\ n.slot = p.slot /\ n.hm = p.hm /\ n.ts = p.ts
        /\ (pc[s] # "save.note" /\ pc'[s] # pc[s]) => handover_notes' = handover_notes]_vars

\* a save of SpO2 92 has written its urgent entry and a save of SpO2 93 has
\* written none: two progress-log rows, one entry on the board
C20_Witness ==
    /\ \A s \in Sessions : pc[s] = "idle"
    /\ Len(handover_notes) = 1
    /\ handover_notes[1].level = "urgent"
    /\ Len(support_logs) = 2
    /\ \E i, j \in DOMAIN support_logs :
          /\ support_logs[i].text[9] = "SpO2 92%"
          /\ support_logs[j].text[9] = "SpO2 93%"
    /\ \E s \in Sessions : snack[s] \in {SNACK_VITALS_SAVED, SNACK_VITALS_URGENT}

-----------------------------------------------------------------------------
(* Claims about the automatic transcription (SpecTranscribe) *)

\* the positions of a handler between its upsert and its add_progress_log, and
\* the table each has written to
TranscribingAt == {"save.log", "meal.log", "meds.log", "patrol.log"}
WrittenTable(at) ==
    IF at = "save.log" THEN vitals
    ELSE IF at = "meal.log" THEN meals
    ELSE IF at = "meds.log" THEN meds
    ELSE patrols
\* the same table after the step
WrittenTableAfter(at) ==
    IF at = "save.log" THEN vitals'
    ELSE IF at = "meal.log" THEN meals'
    ELSE IF at = "meds.log" THEN meds'
    ELSE patrols'

\* C21: every save of a vitals, meal, medication or patrol entry appends
\* exactly one progress-log row for the resident and date of the entry it
\* stored -- the save's upsert leaves the log as it is, the step that follows
\* adds one row (keeping every earlier row) that carries the resident, date,
\* time and timestamp of the stored entry, also when the upsert overwrote an
\* entry; and no other step of these views writes to the log.
C21_OneTranscriptionPerSave ==
    [][\A s \in Sessions :
        /\ (pc[s] = "idle" /\ pc'[s] \in TranscribingAt) =>
              /\ support_logs' = support_logs
              /\ \E r \in WrittenTableAfter(pc'[s]) :
                    r.ts = now_ts /\ r.staff_name = app[s].staff_name
        /\ (pc[s] \in TranscribingAt /\ pc'[s] # pc[s]) =>
              /\ Len(support_logs') = Len(support_logs) + 1
              /\ \A i \in DOMAIN support_logs : support_logs'[i] = support_logs[i]
              /\ LET l == support_logs'[Len(support_logs')] IN
                 \E r \in WrittenTable(pc[s]) :
                    /\ r.resident_id = l.resident_id
                    /\ r.ymd = l.ymd
                    /\ r.hm = l.hm
                    /\ r.ts = l.ts
                    /\ r.staff_name = l.staff_name
        /\ (\A t \in Sessions : pc[t] \notin TranscribingAt) =>
              support_logs' = support_logs]_vars

\* two saves have overwritten one entry and the log holds a row for each: one
\* stored entry, two transcription rows for its resident and date
C21_Witness ==
    \E tbl \in {vitals, meals, meds, patrols} :
        /\ Cardinality(tbl) = 1
        /\ \A r \in tbl :
              Cardinality({i \in DOMAIN support_logs :
                              /\ support_logs[i].resident_id = r.resident_id
                              /\ support_logs[i].ymd = r.ymd}) = 2
        /\ vitals \cup meals \cup meds \cup patrols = tbl
        /\ \A s \in Sessions : pc[s] = "idle"

-----------------------------------------------------------------------------
(* Claims about the database initialisation (SpecInitDb) *)

\* C22: init_db_if_needed keeps existing data -- a step of main keeps every
\* residents row that exists with the fields it has, leaves every other table
\* as it is, ends with a row for every member of RESIDENTS, and running the
\* initialisation once more changes nothing.
C22_InitKeepsResidents ==
    [][residents' # residents =>
         /\ \A row \in residents : row \in residents'
         /\ \A rid \in ResidentIds : \E row \in residents' : row.id = rid
         /\ init_db_if_needed(residents') = residents'
         /\ recordTables' = recordTables
         /\ support_logs' = support_logs
         /\ handover_notes' = handover_notes]_vars

-----------------------------------------------------------------------------
(* Claims about the meal stepper (SpecMeal) *)

\* C23: after any sequence of stepper steps the amount every row of the meal
\* list holds, and every amount stored in the meals table, is an integer in
\* 1..10.
C23_MealAmountBound ==
    /\ \A r \in meals : r.amount \in 1..10
    /\ \A s \in Sessions :
          route[s] = "/meal" => \A rid \in ResidentIds : state[s].amt[rid] \in 1..10

\* the stepper was pressed at either end: the amount 1 is stored while a row of
\* the list, after a + at 10, holds 10
C23_Witness ==
    /\ \E r \in meals : r.amount = 1
    /\ \E s \in Sessions :
          /\ route[s] = "/meal"
          /\ \E rid \in ResidentIds : state[s].amt[rid] = 10
          /\ pc[s] = "meal.log"

-----------------------------------------------------------------------------
(* Claims about concurrent likes (SpecLikes) *)

\* C24: no like is lost -- the likes counter of every entry equals the number
\* of like actions pressed on it so far, by whichever sessions and in
\* whichever order (an entry starts at 0), and no step lowers a counter.
C24_NoLostLikes ==
    /\ [](\A nid \in DOMAIN handover_notes :
            handover_notes[nid].likes = PressesOf(like_log, nid))
    /\ [][\A nid \in DOMAIN handover_notes :
            handover_notes'[nid].likes >= handover_notes[nid].likes]_vars

\* two sessions have each liked the same entry once and its counter is 2
C24_Witness ==
    \E nid \in DOMAIN handover_notes, s, t \in Sessions :
        /\ s # t
        /\ like_log[<<nid, s, app[s].staff_name>>] = 1
        /\ like_log[<<nid, t, app[t].staff_name>>] = 1
        /\ handover_notes[nid].likes = 2

-----------------------------------------------------------------------------
(* Claims about the patrol entries (SpecPatrol) *)

\* the stored patrol rows a step has replaced, each with the row that replaced it
Replaced ==
    {pair \in patrols \X patrols' :
        /\ pair[1] \notin patrols'
        /\ pair[2] \notin patrols
        /\ pair[1].resident_id = pair[2].resident_id
        /\ pair[1].ymd = pair[2].ymd
        /\ pair[1].round = pair[2].round}

\* C25: the two fields of a patrol entry are written independently -- a step
\* that replaces a stored entry either leaves its safety-OK flag as stored (a
\* state button) or sets the flag and leaves its state as stored (the
\* safety-OK button), also when another session wrote the entry after this
\* session's list was loaded.
C25_PatrolFieldsIndependent ==
    [][\A pair \in Replaced :
          \/ pair[2].safety_ok = pair[1].safety_ok
          \/ pair[2].safety_ok = 1 /\ pair[2].state = pair[1].state]_vars

\* C26: in every reachable state the state stored in a patrol row is one of
\* the four PATROL_STATES, whatever the order in which the state buttons and
\* the safety-OK button are pressed.
C26_StoredStateIsPatrolState ==
    \A r \in patrols : r.state \in Range(PATROL_STATES)

-----------------------------------------------------------------------------
(* Claims about the previous vitals row (SpecVitals) *)

\* C27: the previous row a vitals save compares with is never the stored row
\* of the (resident, date, slot) being saved -- it is the row of the day
\* before for the slot, or else an earlier measurement.
C27_PrevIsAnotherMeasurement ==
    [][\A s \in Sessions :
          (pc[s] = "idle" /\ pc'[s] = "save.log" /\ pend'[s].prev # <<>>)
          => \A r \in prev_vitals_source(vitals, pend'[s].payload.resident_id,
                                         pend'[s].payload.ymd, pend'[s].payload.slot) :
                PrevCols(r) = pend'[s].prev[1]
                => VitalsKey(r) # VitalsKey(pend'[s].payload)]_vars

-----------------------------------------------------------------------------
(* Claims about the staff selection (SpecNav) *)

\* C28: when the route changes only through the application's own navigation
\* from /login, a staff member has been selected before the menu or any
\* recording view is shown, and every record, progress-log row and handover
\* entry written carries a non-empty staff name.
C28_StaffSelectedBeforeRecording ==
    /\ \A s \in Sessions :
          route[s] \in MenuTiles \cup {"/menu"} => app[s].staff_name \in Range(STAFFS)
    /\ AllAuthors \subseteq Range(STAFFS)

\* records of two staff members are stored: one was selected, wrote, logged
\* out, and the other was selected and wrote
C28_Witness ==
    /\ AllAuthors = Range(STAFFS)
    /\ handover_notes # <<>>
    /\ support_logs # <<>>
    /\ patrols # {}
    /\ route[StoreSession] \in MenuTiles

====
